---- MODULE Spec2Model ----
(***************************************************************************)
(* Model of the jBPMN workflow engine: the SQLite store (db/sqlite.go),    *)
(* the execution engine (workflow engine: CreateNewInstance,               *)
(* ExecuteNextNode, advanceInstance, AdvanceInstanceAfterForm), the signal *)
(* registry (EmitSignal / ResumeWorkflowsBySignal), the gateway resolver   *)
(* (workflow/gateway.go) and the form handler of main.go.                  *)
(*                                                                         *)
(* Spec is the engine started on one of the workflow directories of        *)
(* WorkflowDirs; ResolveSpec is ResolveGatewayConditions applied to the    *)
(* gateways and contexts of GatewayConditionLists and GatewayContexts.     *)
(*                                                                         *)
(* Every SQL statement is one atomic step; the Go code between two         *)
(* statements of one goroutine is folded into the step of the statement    *)
(* that follows it.  Goroutines and HTTP handlers in flight are the        *)
(* elements of the bag "tasks".                                            *)
(***************************************************************************)
EXTENDS Integers, Sequences, FiniteSets, Bags, TLC

\* ------------------------------------------------------------------------
\* Bounds of the model
\* ------------------------------------------------------------------------
\* Instances created.
MaxInstances == 2

\* API requests (start, signal, form), failing database statements and
\* kills of the process.
MaxCalls == 3

\* Longest list of conditions of a gateway resolved on its own.
MaxConditions == 3

\* ------------------------------------------------------------------------
\* Workflow definitions (workflow/types.go)
\* ------------------------------------------------------------------------
\* A nil *TimeoutConfig.
NoTimeout == [duration |-> "", next |-> ""]

\* A nil *ScriptConfig.
NoScript == "<nil>"

\* WorkflowNode with every optional member absent.
WorkflowNode(id, type, next) ==
    [id |-> id, type |-> type, next |-> next,
     fields |-> << >>, script |-> NoScript, conditions |-> << >>,
     emit |-> "", timeout |-> NoTimeout, catch |-> ""]

\* The result of GetNodeByID when no node has the ID (a nil *WorkflowNode).
NilNode == WorkflowNode("<nil>", "<nil>", "")

\* FormField {name, type, required}.
FormField(name, type, required) ==
    [name |-> name, type |-> type, required |-> required]

\* GatewayCondition with a "when" expression <path> <op> <literal>.
WhenCondition(path, op, lit, next, throw) ==
    [when |-> [path |-> path, op |-> op, lit |-> lit], else |-> FALSE,
     next |-> next, throw |-> throw]

\* GatewayCondition {else: true}.
ElseCondition(next, throw) ==
    [when |-> [path |-> "", op |-> "", lit |-> ""], else |-> TRUE,
     next |-> next, throw |-> throw]

\* start -> script (x = 42) -> end
LinearNodes ==
    << WorkflowNode("start_node", "start", "calc"),
       [WorkflowNode("calc", "script", "done") EXCEPT !.script = "set_x"],
       WorkflowNode("done", "end", "") >>

\* start (catches "go") -> form with timeout -> end emitting "done"
SignupNodes ==
    << [WorkflowNode("start_node", "start", "review") EXCEPT !.catch = "go"],
       [WorkflowNode("review", "form", "finish") EXCEPT
            !.fields = << FormField("name", "text", TRUE) >>,
            !.timeout = [duration |-> "30s", next |-> "expired"]],
       [WorkflowNode("finish", "end", "") EXCEPT !.emit = "done"],
       WorkflowNode("expired", "end", "") >>

\* start -> gateway throwing "go" -> script catching "resume"
\*   -> end emitting "done"
RoutingNodes ==
    << WorkflowNode("start_node", "start", "route"),
       [WorkflowNode("route", "gateway", "") EXCEPT
            !.conditions = << WhenCondition("age", ">=", "30", "adult", ""),
                              ElseCondition("hold", "go") >>],
       WorkflowNode("adult", "end", ""),
       [WorkflowNode("hold", "script", "closed") EXCEPT
            !.script = "noop", !.catch = "resume"],
       [WorkflowNode("closed", "end", "") EXCEPT !.emit = "done"] >>

\* start whose transition target is not a node of the definition
BrokenNodes ==
    << WorkflowNode("start_node", "start", "ghost") >>

\* start (catches "approve", with timeout) -> end; the timeout leads to
\* another end
PausedNodes ==
    << [WorkflowNode("start_node", "start", "done") EXCEPT
            !.catch = "approve",
            !.timeout = [duration |-> "1m", next |-> "late"]],
       WorkflowNode("done", "end", ""),
       WorkflowNode("late", "end", "") >>

\* start -> form -> form with timeout -> end; the timeout leads to another
\* end
WizardNodes ==
    << WorkflowNode("start_node", "start", "step1"),
       [WorkflowNode("step1", "form", "step2") EXCEPT
            !.fields = << FormField("email", "email", TRUE) >>],
       [WorkflowNode("step2", "form", "finish") EXCEPT
            !.fields = << FormField("email", "email", TRUE) >>,
            !.timeout = [duration |-> "30s", next |-> "expired"]],
       WorkflowNode("finish", "end", ""),
       WorkflowNode("expired", "end", "") >>

\* a definition without a node with ID start_node
HeadlessNodes ==
    << WorkflowNode("begin", "start", "stop"),
       WorkflowNode("stop", "end", "") >>

\* start -> form asking for a number -> gateway on the number -> one of two
\* ends
SurveyNodes ==
    << WorkflowNode("start_node", "start", "ask"),
       [WorkflowNode("ask", "form", "route") EXCEPT
            !.fields = << FormField("age", "number", TRUE) >>],
       [WorkflowNode("route", "gateway", "") EXCEPT
            !.conditions = << WhenCondition("age", ">=", "30", "adult", ""),
                              ElseCondition("minor", "") >>],
       WorkflowNode("adult", "end", ""),
       WorkflowNode("minor", "end", "") >>

\* start with timeout -> end; the timeout leads to another end
TimedNodes ==
    << [WorkflowNode("start_node", "start", "done") EXCEPT
            !.timeout = [duration |-> "1m", next |-> "late"]],
       WorkflowNode("done", "end", ""),
       WorkflowNode("late", "end", "") >>

\* start -> throwing script -> script node without a script -> script that
\*   is not a program -> gateway none of whose branches matches; each
\*   script node is left by its timeout
FaultyNodes ==
    << WorkflowNode("start_node", "start", "boom"),
       [WorkflowNode("boom", "script", "decide") EXCEPT
            !.script = "throws",
            !.timeout = [duration |-> "30s", next |-> "bare"]],
       [WorkflowNode("bare", "script", "decide") EXCEPT
            !.timeout = [duration |-> "1m", next |-> "garbled"]],
       [WorkflowNode("garbled", "script", "decide") EXCEPT
            !.script = "garbled",
            !.timeout = [duration |-> "1h", next |-> "decide"]],
       [WorkflowNode("decide", "gateway", "") EXCEPT
            !.conditions = << WhenCondition("age", ">=", "30", "over", "go") >>],
       WorkflowNode("over", "end", "") >>

\* start -> script that never finishes -> end
SpinningNodes ==
    << WorkflowNode("start_node", "start", "spin"),
       [WorkflowNode("spin", "script", "done") EXCEPT !.script = "spins"],
       WorkflowNode("done", "end", "") >>

\* The definition cache keyed by workflow ID (workflowDefinitions).
workflowDefinitions ==
    [w \in {"linear", "signup", "routing", "broken", "paused", "timed",
           "faulty", "wizard", "headless", "survey", "spinning"} |->
        CASE w = "linear"  -> LinearNodes
          [] w = "signup"  -> SignupNodes
          [] w = "routing" -> RoutingNodes
          [] w = "broken"  -> BrokenNodes
          [] w = "paused"  -> PausedNodes
          [] w = "timed"   -> TimedNodes
          [] w = "faulty"  -> FaultyNodes
          [] w = "wizard"  -> WizardNodes
          [] w = "headless" -> HeadlessNodes
          [] w = "survey"  -> SurveyNodes
          [] w = "spinning" -> SpinningNodes]

WorkflowIDs == DOMAIN workflowDefinitions

\* The workflow directories the engine is started on: the sets of workflow
\* IDs that have a definition file.
WorkflowDirs ==
    { {"linear", "broken"}, {"signup"}, {"routing"},
      {"paused", "headless"},
      {"timed"}, {"faulty"}, {"wizard"}, {"survey"}, {"spinning"} }

VARIABLE workflowDir   \* the workflow IDs with a file in the directory

\* GetNodeByID: the first node of the definition with the ID, or nil.
GetNodeByID(wf, nodeID) ==
    LET nodes == workflowDefinitions[wf]
        hits == {k \in 1..Len(nodes) : nodes[k].id = nodeID}
    IN  IF hits = {} THEN NilNode
        ELSE nodes[CHOOSE k \in hits : \A j \in hits : k <= j]

\* GetWorkflowDefinition finding a definition for every workflow ID,
\* whatever the directory holds.
GetWorkflowDefinition_Found(workflowID) ==
    [err |-> FALSE, id |-> workflowID]

\* GetWorkflowDefinition: cache lookup, then the file of the directory; an
\* ID without a file is an error.
GetWorkflowDefinition(workflowID) ==
    [err |-> workflowID \notin workflowDir, id |-> workflowID]

\* ------------------------------------------------------------------------
\* Context values and their JSON form
\* ------------------------------------------------------------------------
\* A Go value of the context map: t is the dynamic type, v the value.
GoString(s) == [t |-> "string", v |-> s]

GoFloat64(n) == [t |-> "float64", v |-> n]

GoInt64(n) == [t |-> "int64", v |-> n]

EmptyContext == << >>

\* json.Marshal of one value: every Go number type becomes a JSON number.
MarshalValue(x) ==
    IF x.t = "string" THEN [j |-> "string", v |-> x.v]
    ELSE [j |-> "number", v |-> x.v]

\* json.Unmarshal of one value into interface{}: numbers come back float64.
UnmarshalValue(x) ==
    IF x.j = "string" THEN GoString(x.v) ELSE GoFloat64(x.v)

\* json.Marshal(map[string]interface{}).
ToJSON(ctx) == [k \in DOMAIN ctx |-> MarshalValue(ctx[k])]

\* json.Unmarshal into map[string]interface{}.
FromJSON(js) == [k \in DOMAIN js |-> UnmarshalValue(js[k])]

\* Assigning every key of "over" into the map "base".
MergeMaps(base, over) ==
    [k \in (DOMAIN base) \cup (DOMAIN over) |->
        IF k \in DOMAIN over THEN over[k] ELSE base[k]]

\* ------------------------------------------------------------------------
\* Script sandbox (package scripts)
\* ------------------------------------------------------------------------
\* The decoded programs of the script nodes: the assignments a program makes
\* to process_data, or a throw; "spins" is while (true) {}.
ScriptPrograms ==
    [c \in {"set_x", "noop", "throws", "spins"} |->
        CASE c = "set_x"  -> [throws |-> FALSE, sets |-> [k \in {"x"} |-> 42]]
          [] c = "noop"   -> [throws |-> FALSE, sets |-> << >>]
          [] c = "throws" -> [throws |-> TRUE,  sets |-> << >>]
          [] c = "spins"  -> [throws |-> FALSE, sets |-> << >>]]

\* The programs vm.RunString returns from; ExecuteScript sets no interrupt
\* and no deadline on the VM, so it returns only when the program does.
RunStringReturns(code) == code # "spins"

\* goja's Export of a property of process_data: numbers with an integral
\* value export as int64, strings as string.
ExportValue(x) == IF x.t = "string" THEN x ELSE GoInt64(x.v)

\* ExecuteScript with the throw of a program swallowed.
ExecuteScript_NoThrow(code, context) ==
    IF code \notin DOMAIN ScriptPrograms
    THEN [err |-> TRUE, ctx |-> EmptyContext]
    ELSE LET sets == ScriptPrograms[code].sets
         IN  [err |-> FALSE,
              ctx |-> [k \in (DOMAIN context) \cup (DOMAIN sets) |->
                         IF k \in DOMAIN sets THEN GoInt64(sets[k])
                         ELSE ExportValue(context[k])]]

\* ExecuteScript: base64 decode, run in a fresh VM with process_data bound to
\* a copy of the context, export process_data.
ExecuteScript(code, context) ==
    IF code \notin DOMAIN ScriptPrograms
    THEN [err |-> TRUE, ctx |-> EmptyContext]
    ELSE IF ScriptPrograms[code].throws
    THEN [err |-> TRUE, ctx |-> EmptyContext]
    ELSE LET sets == ScriptPrograms[code].sets
         IN  [err |-> FALSE,
              ctx |-> [k \in (DOMAIN context) \cup (DOMAIN sets) |->
                         IF k \in DOMAIN sets THEN GoInt64(sets[k])
                         ELSE ExportValue(context[k])]]

\* ------------------------------------------------------------------------
\* Condition evaluator and gateway resolver (workflow/gateway.go)
\* ------------------------------------------------------------------------
\* strconv.ParseFloat on the literals that occur in the definitions.
NumericLiterals == [s \in {"30", "5"} |-> IF s = "30" THEN 30 ELSE 5]

ParseFloat(s) ==
    IF s \in DOMAIN NumericLiterals
    THEN [err |-> FALSE, v |-> NumericLiterals[s]]
    ELSE [err |-> TRUE, v |-> 0]

\* Byte-wise order of the strings that occur as context values or literals.
StringOrder ==
    << "", " ", "30", "30abc", "5", "a@b", "a@b.c", "alice", "bob" >>

StringRank(s) == CHOOSE k \in 1..Len(StringOrder) : StringOrder[k] = s

\* getNestedValue for a path without dots: a lookup of the key.
getNestedValue(m, path) ==
    IF path \in DOMAIN m THEN [ok |-> TRUE, val |-> m[path]]
    ELSE [ok |-> FALSE, val |-> GoString("")]

compareNumbers(actual, target, op) ==
    CASE op = ">=" -> [err |-> FALSE, res |-> actual >= target]
      [] op = "<=" -> [err |-> FALSE, res |-> actual <= target]
      [] op = "==" -> [err |-> FALSE, res |-> actual = target]
      [] op = ">"  -> [err |-> FALSE, res |-> actual > target]
      [] op = "<"  -> [err |-> FALSE, res |-> actual < target]
      [] op = "!=" -> [err |-> FALSE, res |-> actual # target]
      [] OTHER     -> [err |-> TRUE,  res |-> FALSE]

compareStrings(actual, target, op) ==
    CASE op = "==" -> [err |-> FALSE, res |-> actual = target]
      [] op = "!=" -> [err |-> FALSE, res |-> actual # target]
      [] op = ">"  -> [err |-> FALSE, res |-> StringRank(actual) > StringRank(target)]
      [] op = "<"  -> [err |-> FALSE, res |-> StringRank(actual) < StringRank(target)]
      [] op = ">=" -> [err |-> FALSE, res |-> StringRank(actual) >= StringRank(target)]
      [] op = "<=" -> [err |-> FALSE, res |-> StringRank(actual) <= StringRank(target)]
      [] OTHER     -> [err |-> TRUE,  res |-> FALSE]

\* evaluateSimpleCondition comparing a string value numerically when both
\* the value and the literal parse as numbers.
evaluateSimpleCondition_NumericFirst(when, context) ==
    LET found  == getNestedValue(context, when.path)
        target == ParseFloat(when.lit)
        actual == found.val
    IN  IF when.op \notin {">=", "<=", "==", "!=", ">", "<"}
        THEN [err |-> TRUE, res |-> FALSE]
        ELSE IF ~found.ok THEN [err |-> TRUE, res |-> FALSE]
        ELSE IF actual.t \in {"float64", "int"}
        THEN IF ~target.err THEN compareNumbers(actual.v, target.v, when.op)
             ELSE [err |-> TRUE, res |-> FALSE]
        ELSE IF actual.t = "string"
        THEN IF ~target.err /\ ~ParseFloat(actual.v).err
             THEN compareNumbers(ParseFloat(actual.v).v, target.v, when.op)
             ELSE compareStrings(actual.v, when.lit, when.op)
        ELSE [err |-> TRUE, res |-> FALSE]

\* evaluateSimpleCondition on an expression already split at its operator.
evaluateSimpleCondition(when, context) ==
    LET found  == getNestedValue(context, when.path)
        target == ParseFloat(when.lit)
        actual == found.val
    IN  IF when.op \notin {">=", "<=", "==", "!=", ">", "<"}
        THEN [err |-> TRUE, res |-> FALSE]
        ELSE IF ~found.ok THEN [err |-> TRUE, res |-> FALSE]
        ELSE IF actual.t \in {"float64", "int"}
        THEN IF ~target.err THEN compareNumbers(actual.v, target.v, when.op)
             ELSE [err |-> TRUE, res |-> FALSE]
        ELSE IF actual.t = "string"
        THEN compareStrings(actual.v, when.lit, when.op)
        ELSE [err |-> TRUE, res |-> FALSE]

\* ConditionMet with a "when" that fails to evaluate counted as met.
ConditionMet_ErrorMatches(cond, context) ==
    IF cond.when.path # ""
    THEN LET r == evaluateSimpleCondition(cond.when, context)
         IN  r.err \/ r.res
    ELSE cond.else

\* Whether one condition of a gateway is met: a "when" that evaluates to
\* true, or an else branch; an evaluation error skips the branch.
ConditionMet(cond, context) ==
    IF cond.when.path # ""
    THEN LET r == evaluateSimpleCondition(cond.when, context)
         IN  ~r.err /\ r.res
    ELSE cond.else

\* ResolveGatewayConditions with the first condition chosen when none is met.
ResolveGatewayConditions_DefaultFirst(node, context) ==
    LET conds == node.conditions
        met   == {k \in 1..Len(conds) : ConditionMet(conds[k], context)}
        first == IF met = {} THEN 1
                 ELSE CHOOSE k \in met : \A j \in met : k <= j
    IN  IF Len(conds) = 0 \/ conds[first].next = ""
        THEN [err |-> TRUE, next |-> "", throw |-> ""]
        ELSE [err |-> FALSE, next |-> conds[first].next,
              throw |-> conds[first].throw]

\* ResolveGatewayConditions with the last met condition chosen.
ResolveGatewayConditions_LastMatch(node, context) ==
    LET conds == node.conditions
        met   == {k \in 1..Len(conds) : ConditionMet(conds[k], context)}
        last  == CHOOSE k \in met : \A j \in met : k >= j
    IN  IF Len(conds) = 0 \/ met = {} \/ conds[last].next = ""
        THEN [err |-> TRUE, next |-> "", throw |-> ""]
        ELSE [err |-> FALSE, next |-> conds[last].next,
              throw |-> conds[last].throw]

\* ResolveGatewayConditions: the first met condition with its next and throw.
ResolveGatewayConditions(node, context) ==
    LET conds == node.conditions
        met   == {k \in 1..Len(conds) : ConditionMet(conds[k], context)}
        first == CHOOSE k \in met : \A j \in met : k <= j
    IN  IF Len(conds) = 0 \/ met = {} \/ conds[first].next = ""
        THEN [err |-> TRUE, next |-> "", throw |-> ""]
        ELSE [err |-> FALSE, next |-> conds[first].next,
              throw |-> conds[first].throw]

\* ------------------------------------------------------------------------
\* Form input (ValidateFormInput, MergeFormInputIntoContext, main.go)
\* ------------------------------------------------------------------------
\* fmt.Sscanf(value, "%f", &num) on the submitted values: the scan reads the
\* longest numeric prefix and succeeds when there is one, whatever follows.
SscanfFloat(value) ==
    CASE value \in DOMAIN NumericLiterals ->
            [err |-> FALSE, num |-> NumericLiterals[value]]
      [] value = "30abc" -> [err |-> FALSE, num |-> 30]
      [] OTHER -> [err |-> TRUE, num |-> 0]

ScansAsNumber(s) == ~SscanfFloat(s).err

\* strings.TrimSpace on the submitted values.
TrimSpace(value) == IF value = " " THEN "" ELSE value

\* strings.Contains(value, substr) on the submitted values, for the
\* substrings "@" and ".".
Contains(value, substr) ==
    CASE substr = "@" -> value \in {"a@b", "a@b.c"}
      [] substr = "." -> value \in {"a@b.c"}

\* ValidateFormInput: TRUE when the input has no validation error.  A
\* required field must be present and not blank; a value that is present
\* and not blank must scan as a float for a number field and contain "@"
\* and "." for an email field.
ValidateFormInput(fields, input) ==
    \A k \in 1..Len(fields) :
        LET f == fields[k]
            exists == f.name \in DOMAIN input
        IN  /\ ~(f.required /\ (~exists \/ TrimSpace(input[f.name]) = ""))
            /\ (exists /\ TrimSpace(input[f.name]) # "" /\ f.type = "number")
                   => ScansAsNumber(input[f.name])
            /\ (exists /\ TrimSpace(input[f.name]) # "" /\ f.type = "email")
                   => (Contains(input[f.name], "@") /\ Contains(input[f.name], "."))

\* MergeFormInputIntoContext: the submitted value of every field of the form
\* assigned into the map "context", a number field whose value scans as a
\* float as float64, anything else as string.  submitFormHandler applies it
\* to the Context of the instance value it loaded, which is not what
\* AdvanceInstanceAfterForm persists.
MergeFormInputIntoContext(context, formFields, input) ==
    LET named(k) == {n \in 1..Len(formFields) : formFields[n].name = k}
        given == {k \in DOMAIN input : named(k) # {}}
        field(k) == formFields[CHOOSE n \in named(k) : \A m \in named(k) : n >= m]
    IN  [k \in (DOMAIN context) \cup given |->
            IF k \notin given THEN context[k]
            ELSE IF field(k).type = "number" /\ ScansAsNumber(input[k])
                 THEN GoFloat64(SscanfFloat(input[k]).num)
                 ELSE GoString(input[k])]

\* formDataMap of submitFormHandler: every submitted value as a Go string.
FormDataMap(input) == [k \in DOMAIN input |-> GoString(input[k])]

\* ------------------------------------------------------------------------
\* State
\* ------------------------------------------------------------------------
VARIABLES
    instances,   \* table workflow_instances: instance ID -> head record
    nodes,       \* table workflow_instance_nodes: per instance, the rows
                 \* in insertion order
    tasks,       \* goroutines and HTTP handlers in flight (a bag)
    appended,    \* history: who appended which row, deciding on which head
    emitted,     \* history: the signals whose waiting set has been read,
                 \* with the node execution that emitted them and the
                 \* instance IDs read
    calls,       \* number of API requests (start, signal, form), of
                 \* failed database statements and of kills so far
    armed,       \* history: the timeout goroutines that have been started
    errors,      \* history: the errors returned by the engine's operations
    resolution   \* a call of ResolveGatewayConditions: its arguments, and
                 \* its result once it has returned

vars == << instances, nodes, tasks, appended, emitted, calls, armed, errors,
          workflowDir, resolution >>

\* A NULL expires_at column / a nil *time.Time.
NULL == "NULL"

\* The empty current_node_instance_id written by SaveNewInstance's first
\* statement.
NoID == << >>

\* A goroutine or handler: what it runs, where it is, and its locals.
Task(kind, pc, inst) ==
    [kind |-> kind, pc |-> pc, inst |-> inst,
     cur |-> NoID,             \* CurrentNodeInstanceDBID it decided on
     next |-> "",              \* node ID it writes
     ctx |-> EmptyContext,     \* ctxJSON it writes
     wsig |-> "",              \* waiting_signal it writes
     exp |-> NULL,             \* expires_at it writes
     newid |-> NoID,           \* ID of the row it inserted
     sig |-> "",               \* signal name (emit)
     ids |-> << >>,            \* instance IDs still to resume (emit)
     input |-> << >>,          \* submitted form values (form)
     duration |-> ""]          \* timeout duration (timer)

One(t) == SetToBag({t})

Range(seq) == {seq[k] : k \in 1..Len(seq)}

\* GetNodeInstance: the row with the ID, if any.
GetNodeInstance(id) ==
    LET hits == {r \in UNION {Range(nodes[i]) : i \in DOMAIN nodes} : r.id = id}
    IN  IF hits = {} THEN [err |-> TRUE, node_id |-> ""]
        ELSE [err |-> FALSE, node_id |-> (CHOOSE r \in hits : TRUE).node_id]

\* GetInstanceAndDefinition: head, then the row the head points to, then the
\* definition and the node definition of that row.
GetInstanceAndDefinition(i) ==
    LET missing == [err |-> TRUE, WorkflowID |-> "", CurrentNode |-> "",
                    CurrentNodeInstanceDBID |-> NoID, Context |-> EmptyContext,
                    WaitingSignal |-> "", ExpiresAt |-> NULL,
                    CurrentNodeDef |-> NilNode]
    IN  IF i \notin DOMAIN instances THEN missing
        ELSE LET head == instances[i]
                 row  == GetNodeInstance(head.current_node_instance_id)
             IN  IF row.err \/ GetWorkflowDefinition(head.workflow_id).err
                 THEN missing
                 ELSE LET def == GetNodeByID(head.workflow_id, row.node_id)
                      IN  IF def = NilNode THEN missing
                          ELSE [err |-> FALSE,
                                WorkflowID |-> head.workflow_id,
                                CurrentNode |-> row.node_id,
                                CurrentNodeInstanceDBID |->
                                    head.current_node_instance_id,
                                Context |-> FromJSON(head.context),
                                WaitingSignal |-> head.waiting_signal,
                                ExpiresAt |-> head.expires_at,
                                CurrentNodeDef |-> def]

\* GetInstancesWaitingForSignal: instance IDs in table order.
RECURSIVE IDsFrom(_, _)
IDsFrom(k, signalName) ==
    IF k > MaxInstances + 1 THEN << >>
    ELSE IF k \in DOMAIN instances /\ instances[k].waiting_signal = signalName
    THEN << k >> \o IDsFrom(k + 1, signalName)
    ELSE IDsFrom(k + 1, signalName)

GetInstancesWaitingForSignal(signalName) == IDsFrom(1, signalName)

\* time.ParseDuration on the duration strings of the definitions.
ParseDurationOK(d) == d \in {"50ms", "30s", "1m", "1h"}

\* A node-execution row.
NodeRow(id, i, nodeID, ctx, wsig, exp) ==
    [id |-> id, workflow_instance_id |-> i, node_id |-> nodeID,
     context |-> ctx, waiting_signal |-> wsig, expires_at |-> exp]

\* newNodeID + "-" + instanceID + "-" + now.UnixNano(): the timestamps of the
\* rows of one instance are taken to be distinct and increasing, and are
\* numbered 2, 3, ... in the order of the INSERTs.
NewNodeInstanceID(nodeID, i) == << nodeID, i, Len(nodes[i]) + 1 >>

\* The INSERT written as an upsert on (instance, node ID): a row of the
\* instance for the same node is overwritten.
InsertNode_Upsert(row) ==
    LET i == row.workflow_instance_id
        same == {k \in 1..Len(nodes[i]) : nodes[i][k].node_id = row.node_id}
    IN  IF same = {} THEN [nodes EXCEPT ![i] = Append(@, row)]
        ELSE [nodes EXCEPT ![i] =
                Append([k \in 1..Len(@) |-> IF k \in same THEN row ELSE @[k]],
                       row)]

\* The INSERT INTO workflow_instance_nodes of both save functions.
InsertNode(row) ==
    [nodes EXCEPT ![row.workflow_instance_id] = Append(@, row)]

\* The UPDATE workflow_instances ... WHERE id = i of both save functions: no
\* row with the ID means no change and no error.
UpdateHead(i, id, ctx, wsig, exp) ==
    IF i \in DOMAIN instances
    THEN [instances EXCEPT ![i] =
            [@ EXCEPT !.current_node_instance_id = id, !.context = ctx,
                      !.waiting_signal = wsig, !.expires_at = exp]]
    ELSE instances

\* The goroutine "go ExecuteNextNode(instanceID)".
ExecTask(i) == Task("exec", "load", i)

\* No call of ResolveGatewayConditions under examination.
NoResolution ==
    [conditions |-> << >>, context |-> EmptyContext, returned |-> FALSE,
     result |-> [err |-> FALSE, next |-> "", throw |-> ""]]

\* The database and the process right after startup.
Started ==
    /\ instances = << >>
    /\ nodes = [i \in 1..MaxInstances |-> << >>]
    /\ tasks = EmptyBag
    /\ appended = {}
    /\ emitted = {}
    /\ calls = 0
    /\ armed = {}
    /\ errors = {}

Init ==
    /\ Started
    /\ workflowDir \in WorkflowDirs
    /\ resolution = NoResolution

\* ------------------------------------------------------------------------
\* CreateNewInstance / db.SaveNewInstance
\* ------------------------------------------------------------------------
\* The waiting signal of a new instance, were a signal emitted before the
\* creation kept for it.
InitialWaitingSignal_Buffered(startNode) ==
    IF \E m \in emitted : m.sig = startNode.catch THEN "" ELSE startNode.catch

\* The waiting signal of a new instance: the signal its start node catches,
\* if any.
InitialWaitingSignal(startNode) == startNode.catch

\* CreateNewInstance up to and including SaveNewInstance's first statement,
\* the INSERT of the head with an empty current_node_instance_id; without a
\* definition for the ID, or without a node start_node in it, the error
\* return.
CreateNewInstance(workflowID) ==
    LET instanceID == Cardinality(DOMAIN instances) + 1
        startNode == GetNodeByID(workflowID, "start_node")
        waitingSignal == InitialWaitingSignal(startNode)
        initialContext == [k \in {"instanceID"} |-> GoString(ToString(instanceID))]
        failure == IF GetWorkflowDefinition(workflowID).err THEN "definition"
                   ELSE IF startNode = NilNode THEN "start_node"
                   ELSE ""
    IN  /\ calls < MaxCalls
        /\ calls' = calls + 1
        /\ IF failure # ""
           THEN UNCHANGED << instances, tasks >>
           ELSE /\ instanceID <= MaxInstances
                /\ instances' = [i \in (DOMAIN instances) \cup {instanceID} |->
                        IF i = instanceID
                        THEN [workflow_id |-> workflowID,
                              current_node_instance_id |-> NoID,
                              context |-> ToJSON(initialContext),
                              waiting_signal |-> waitingSignal,
                              expires_at |-> NULL]
                        ELSE instances[i]]
                /\ tasks' = tasks (+)
                        One([Task("create", "insert", instanceID) EXCEPT
                            !.next = startNode.id,
                            !.ctx = ToJSON(initialContext),
                            !.wsig = waitingSignal,
                            !.newid = << startNode.id, instanceID >>])
        /\ UNCHANGED << nodes, appended, emitted, armed, errors,
                     workflowDir, resolution >>

\* SaveNewInstance's second statement: INSERT of the initial row.
SaveNewInstance_InsertNode(t) ==
    /\ t.kind = "create" /\ t.pc = "insert"
    /\ nodes' = InsertNode(NodeRow(t.newid, t.inst, t.next, t.ctx, t.wsig, t.exp))
    /\ appended' = appended \cup
            {[inst |-> t.inst, from |-> NoID, id |-> t.newid, by |-> "create",
              input |-> t.input]}
    /\ tasks' = (tasks (-) One(t)) (+) One([t EXCEPT !.pc = "update"])
    /\ UNCHANGED << instances, emitted, calls, armed, errors,
                     workflowDir, resolution >>

\* CreateNewInstance starting the execution whatever the waiting signal.
StartsExecution_Always(waitingSignal) == TRUE

\* CreateNewInstance starts the execution of an instance that waits for no
\* signal.
StartsExecution(waitingSignal) == waitingSignal = ""

\* SaveNewInstance's third statement, the UPDATE that points the head at the
\* initial row, and the rest of CreateNewInstance: start execution unless the
\* start node catches a signal.
SaveNewInstance_UpdateHead(t) ==
    /\ t.kind = "create" /\ t.pc = "update"
    /\ instances' = [instances EXCEPT
            ![t.inst] = [@ EXCEPT !.current_node_instance_id = t.newid]]
    /\ tasks' = (tasks (-) One(t)) (+)
            (IF StartsExecution(t.wsig) THEN One(ExecTask(t.inst))
             ELSE EmptyBag)
    /\ UNCHANGED << nodes, appended, emitted, calls, armed, errors,
                     workflowDir, resolution >>

\* ------------------------------------------------------------------------
\* ExecuteNextNode
\* ------------------------------------------------------------------------
\* The goroutine "go EmitSignal(signalName)" started at node execution src.
EmitTask(signalName, src) ==
    [Task("emit", "query", 0) EXCEPT !.sig = signalName, !.cur = src]

\* The switch on the node type: whether to call advanceInstance and with
\* which target, and the signal handed to "go EmitSignal".
Dispatch(inst) ==
    LET def  == inst.CurrentNodeDef
        stay == [advance |-> FALSE, next |-> "", emit |-> "", err |-> "",
                 blocks |-> FALSE]
        fail(e) == [stay EXCEPT !.err = e]
        go(n, sig) == [stay EXCEPT !.advance = TRUE, !.next = n, !.emit = sig]
    IN  CASE def.type = "start" ->
                IF def.next # "" THEN go(def.next, "") ELSE fail("start")
          [] def.type = "form" -> stay
          [] def.type = "script" ->
                \* executeScriptNode: the script's result is assigned to the
                \* Context of this goroutine's instance value only.
                IF def.script = NoScript THEN fail("script")
                ELSE IF ~RunStringReturns(def.script)
                     THEN [stay EXCEPT !.blocks = TRUE]
                ELSE IF ExecuteScript(def.script, inst.Context).err
                     THEN fail("script")
                ELSE go(def.next, "")
          [] def.type = "gateway" ->
                LET r == ResolveGatewayConditions(def, inst.Context)
                IN  IF r.err THEN fail("gateway") ELSE go(r.next, r.throw)
          [] def.type = "end" ->
                \* executeEndNode
                [stay EXCEPT !.emit = def.emit]
          [] OTHER -> fail("type")

\* The values of an expires_at column: NULL, or a time before or after
\* time.Now() of the call that reads it.
ExpiresAtValues == {NULL, "past", "future"}

\* ExecuteNextNode's guard without its test of expires_at.
NotAutoExecuting_WaitingOnly(instance) ==
    instance.WaitingSignal # ""

\* ExecuteNextNode's guard: the instance waits for a signal or has expired.
NotAutoExecuting(instance) ==
    \/ instance.WaitingSignal # ""
    \/ (instance.ExpiresAt # NULL /\ instance.ExpiresAt = "past")

\* ExecuteNextNode from its load to the call of advanceInstance: the guard
\* on waiting_signal / expires_at, the timeout goroutine, the dispatch.  No
\* step leads on from the position "script".
ExecuteNextNode(t) ==
    LET inst == GetInstanceAndDefinition(t.inst)
        def  == inst.CurrentNodeDef
        runs == ~inst.err /\ ~NotAutoExecuting(inst)
        d    == Dispatch(inst)
        timer == IF runs /\ def.timeout # NoTimeout
                 THEN One([Task("timer", "sleep", t.inst) EXCEPT
                            !.cur = inst.CurrentNodeInstanceDBID,
                            !.next = def.timeout.next,
                            !.duration = def.timeout.duration])
                 ELSE EmptyBag
        emit == IF runs /\ d.emit # ""
                THEN One(EmitTask(d.emit, inst.CurrentNodeInstanceDBID))
                ELSE EmptyBag
        self == IF runs /\ d.advance
                THEN One([t EXCEPT !.pc = "adv_load", !.next = d.next,
                                   !.cur = inst.CurrentNodeInstanceDBID])
                ELSE IF runs /\ d.blocks
                \* the goroutine stays inside vm.RunString
                THEN One([t EXCEPT !.pc = "script",
                                   !.cur = inst.CurrentNodeInstanceDBID])
                ELSE EmptyBag
    IN  /\ t.kind = "exec" /\ t.pc = "load"
        /\ tasks' = (tasks (-) One(t)) (+) timer (+) emit (+) self
        /\ armed' = armed \cup
                (IF timer = EmptyBag THEN {}
                 ELSE {[inst |-> t.inst, cur |-> inst.CurrentNodeInstanceDBID,
                        next |-> def.timeout.next]})
        /\ errors' = errors \cup
                (IF runs /\ d.err # ""
                 THEN {[inst |-> t.inst, cur |-> inst.CurrentNodeInstanceDBID,
                        kind |-> d.err, newid |-> NoID]}
                 ELSE {})
        /\ UNCHANGED << instances, nodes, appended, emitted, calls,
                     workflowDir, resolution >>

\* The timeout goroutine's test after its sleep, with the test replaced by a
\* comparison of node IDs.
StillOnNodeInstance_ByNode(currentInstance, originalNodeInstanceDBID) ==
    currentInstance.CurrentNode = originalNodeInstanceDBID[1]

\* The timeout goroutine's test after its sleep, with the test left out.
StillOnNodeInstance_Always(currentInstance, originalNodeInstanceDBID) ==
    TRUE

\* The timeout goroutine's test after its sleep: the head still references
\* the node execution the timer was started for.
StillOnNodeInstance(currentInstance, originalNodeInstanceDBID) ==
    currentInstance.CurrentNodeInstanceDBID = originalNodeInstanceDBID

\* The timeout goroutine after its sleep: re-read the head and compare the
\* node-execution ID with the one captured when the timer was started.
TimeoutFire(t) ==
    LET inst == GetInstanceAndDefinition(t.inst)
        fires == /\ ParseDurationOK(t.duration)
                 /\ ~inst.err
                 /\ StillOnNodeInstance(inst, t.cur)
    IN  /\ t.kind = "timer" /\ t.pc = "sleep"
        /\ tasks' = (tasks (-) One(t)) (+)
                (IF fires THEN One([t EXCEPT !.pc = "adv_load"]) ELSE EmptyBag)
        /\ UNCHANGED << instances, nodes, appended, emitted, calls, armed, errors,
                     workflowDir, resolution >>

\* ------------------------------------------------------------------------
\* advanceInstance
\* ------------------------------------------------------------------------
\* advanceInstance's ctxJSON: json.Marshal of the context it loaded.
MarshalContext(instance) == ToJSON(instance.Context)

\* advanceInstance's own load of the instance: the context and expires_at it
\* is going to write are the ones of the head it reads here.
advanceInstance_Load(t) ==
    LET inst == GetInstanceAndDefinition(t.inst)
    IN  /\ t.kind \in {"exec", "timer"} /\ t.pc = "adv_load"
        /\ tasks' = (tasks (-) One(t)) (+)
                (IF inst.err THEN EmptyBag
                 ELSE One([t EXCEPT !.pc = "adv_insert",
                                    !.ctx = MarshalContext(inst),
                                    !.wsig = "",
                                    !.exp = inst.ExpiresAt]))
        /\ UNCHANGED << instances, nodes, appended, emitted, calls, armed, errors,
                     workflowDir, resolution >>

\* UpdateInstanceCurrentNodeAndContext's INSERT of the new row.
advanceInstance_Insert(t) ==
    LET id == NewNodeInstanceID(t.next, t.inst)
    IN  /\ t.kind \in {"exec", "timer"} /\ t.pc = "adv_insert"
        /\ nodes' = InsertNode(NodeRow(id, t.inst, t.next, t.ctx, t.wsig, t.exp))
            /\ appended' = appended \cup
                {[inst |-> t.inst, from |-> t.cur, id |-> id, by |-> t.kind,
                  input |-> t.input]}
        /\ tasks' = (tasks (-) One(t)) (+)
                One([t EXCEPT !.pc = "adv_update", !.newid = id])
        /\ UNCHANGED << instances, emitted, calls, armed, errors,
                     workflowDir, resolution >>

\* UpdateInstanceCurrentNodeAndContext's UPDATE of the head and the rest of
\* advanceInstance.  Reading the Type of a nil CurrentNodeDef panics, which
\* ends the process and with it every goroutine.
advanceInstance_Update(t) ==
    LET def == GetNodeByID(instances[t.inst].workflow_id, t.next)
    IN  /\ t.kind \in {"exec", "timer"} /\ t.pc = "adv_update"
        /\ instances' = UpdateHead(t.inst, t.newid, t.ctx, t.wsig, t.exp)
        /\ tasks' = IF def = NilNode THEN EmptyBag
                    ELSE (tasks (-) One(t)) (+)
                         (IF def.type # "end" /\ def.type # "form"
                          THEN One(ExecTask(t.inst)) ELSE EmptyBag)
        /\ UNCHANGED << nodes, appended, emitted, calls, armed, errors,
                     workflowDir, resolution >>

\* ------------------------------------------------------------------------
\* EmitSignal / ResumeWorkflowsBySignal
\* ------------------------------------------------------------------------
\* Signal names of the /signal/{name} requests.
Signals == {"go"}

\* The loop of ResumeWorkflowsBySignal moving on to the next instance ID.
ResumeNext(t) ==
    IF Len(t.ids) > 1
    THEN One([t EXCEPT !.pc = "emit_load", !.ids = Tail(t.ids)])
    ELSE EmptyBag

\* ResumeWorkflowsBySignal's read of the waiting set, by the goroutine of a
\* gateway throw or end-node emit.
ResumeWorkflowsBySignal(t) ==
    LET instanceIDs == GetInstancesWaitingForSignal(t.sig)
    IN  /\ t.kind = "emit" /\ t.pc = "query"
        /\ emitted' = emitted \cup
                {[sig |-> t.sig, src |-> t.cur, ids |-> instanceIDs]}
        /\ tasks' = (tasks (-) One(t)) (+)
                (IF Len(instanceIDs) = 0 THEN EmptyBag
                 ELSE One([t EXCEPT !.pc = "emit_load", !.ids = instanceIDs,
                                    !.cur = NoID]))
        /\ UNCHANGED << instances, nodes, appended, calls, armed, errors,
                     workflowDir, resolution >>

\* signalWorkflowHandler: the same read of the waiting set, by the handler
\* of a /signal/{name} request.
EmitSignal(signalName) ==
    LET instanceIDs == GetInstancesWaitingForSignal(signalName)
    IN  /\ calls < MaxCalls
        /\ calls' = calls + 1
        /\ emitted' = emitted \cup
                {[sig |-> signalName, src |-> NoID, ids |-> instanceIDs]}
        /\ tasks' = tasks (+)
                (IF Len(instanceIDs) = 0 THEN EmptyBag
                 ELSE One([Task("emit", "emit_load", 0) EXCEPT
                            !.sig = signalName, !.ids = instanceIDs]))
        /\ UNCHANGED << instances, nodes, appended, armed, errors,
                     workflowDir, resolution >>

\* Loop body, GetInstanceAndDefinition(id): a load error skips the instance.
Resume_Load(t) ==
    LET id   == Head(t.ids)
        inst == GetInstanceAndDefinition(id)
    IN  /\ t.kind = "emit" /\ t.pc = "emit_load"
        /\ tasks' = (tasks (-) One(t)) (+)
                (IF inst.err THEN ResumeNext(t)
                 ELSE One([t EXCEPT !.pc = "emit_insert", !.inst = id,
                                    !.cur = inst.CurrentNodeInstanceDBID,
                                    !.next = inst.CurrentNode,
                                    !.ctx = ToJSON(inst.Context),
                                    !.wsig = "",
                                    !.exp = inst.ExpiresAt]))
        /\ UNCHANGED << instances, nodes, appended, emitted, calls, armed, errors,
                     workflowDir, resolution >>

\* Loop body, UpdateInstanceCurrentNodeAndContext's INSERT: a new row for
\* the same node with the waiting signal cleared.
Resume_Insert(t) ==
    LET id == NewNodeInstanceID(t.next, t.inst)
    IN  /\ t.kind = "emit" /\ t.pc = "emit_insert"
        /\ nodes' = InsertNode(NodeRow(id, t.inst, t.next, t.ctx, t.wsig, t.exp))
            /\ appended' = appended \cup
                {[inst |-> t.inst, from |-> t.cur, id |-> id, by |-> "signal",
                  input |-> t.input]}
        /\ tasks' = (tasks (-) One(t)) (+)
                One([t EXCEPT !.pc = "emit_update", !.newid = id])
        /\ UNCHANGED << instances, emitted, calls, armed, errors,
                     workflowDir, resolution >>

\* Loop body, the UPDATE of the head and "go ExecuteNextNode(id)".
Resume_Update(t) ==
    /\ t.kind = "emit" /\ t.pc = "emit_update"
    /\ instances' = UpdateHead(t.inst, t.newid, t.ctx, t.wsig, t.exp)
    /\ tasks' = (tasks (-) One(t)) (+) One(ExecTask(t.inst)) (+) ResumeNext(t)
    /\ UNCHANGED << nodes, appended, emitted, calls, armed, errors,
                     workflowDir, resolution >>

\* ------------------------------------------------------------------------
\* submitFormHandler (POST) / AdvanceInstanceAfterForm
\* ------------------------------------------------------------------------
\* Form submissions of the /form/{instance} requests.
FormInputs ==
    { [k \in {"name"} |-> "alice"], [k \in {"name"} |-> ""],
      [k \in {"name", "instanceID"} |-> "bob"],
      [k \in {"name"} |-> " "],
      [k \in {"email"} |-> "a@b.c"], [k \in {"email"} |-> "a@b"],
      [k \in {"email"} |-> "bob"],
      [k \in {"age", "instanceID"} |-> "30"], [k \in {"age"} |-> "5"] }

\* submitFormHandler up to the call of AdvanceInstanceAfterForm: load the
\* instance, require a form node with fields, validate the input.
submitFormHandler(instanceID, input) ==
    LET inst == GetInstanceAndDefinition(instanceID)
        def  == inst.CurrentNodeDef
        accepted == /\ ~inst.err
                    /\ def.type = "form"
                    /\ Len(def.fields) > 0
                    /\ ValidateFormInput(def.fields, input)
    IN  /\ calls < MaxCalls
        /\ instanceID \in DOMAIN instances
        /\ calls' = calls + 1
        /\ tasks' = tasks (+)
                (IF accepted
                 THEN One([Task("form", "form_load", instanceID) EXCEPT
                            !.cur = inst.CurrentNodeInstanceDBID,
                            !.next = def.next,
                            !.input = input])
                 ELSE EmptyBag)
        /\ UNCHANGED << instances, nodes, appended, emitted, armed, errors,
                     workflowDir, resolution >>

\* AdvanceInstanceAfterForm's load and merge of formData over the context.
AdvanceInstanceAfterForm_Load(t) ==
    LET inst == GetInstanceAndDefinition(t.inst)
    IN  /\ t.kind = "form" /\ t.pc = "form_load"
        /\ tasks' = (tasks (-) One(t)) (+)
                (IF inst.err THEN EmptyBag
                 ELSE One([t EXCEPT !.pc = "form_insert",
                            !.ctx = ToJSON(MergeMaps(inst.Context,
                                                     FormDataMap(t.input))),
                            !.wsig = "", !.exp = NULL]))
        /\ UNCHANGED << instances, nodes, appended, emitted, calls, armed, errors,
                     workflowDir, resolution >>

\* UpdateInstanceCurrentNodeAndContext's INSERT of the row of the next node.
AdvanceInstanceAfterForm_Insert(t) ==
    LET id == NewNodeInstanceID(t.next, t.inst)
    IN  /\ t.kind = "form" /\ t.pc = "form_insert"
        /\ nodes' = InsertNode(NodeRow(id, t.inst, t.next, t.ctx, t.wsig, t.exp))
            /\ appended' = appended \cup
                {[inst |-> t.inst, from |-> t.cur, id |-> id, by |-> "form",
                  input |-> t.input]}
        /\ tasks' = (tasks (-) One(t)) (+)
                One([t EXCEPT !.pc = "form_update", !.newid = id])
        /\ UNCHANGED << instances, emitted, calls, armed, errors,
                     workflowDir, resolution >>

\* The UPDATE of the head and "go ExecuteNextNode(instanceID)".
AdvanceInstanceAfterForm_Update(t) ==
    /\ t.kind = "form" /\ t.pc = "form_update"
    /\ instances' = UpdateHead(t.inst, t.newid, t.ctx, t.wsig, t.exp)
    /\ tasks' = (tasks (-) One(t)) (+) One(ExecTask(t.inst))
    /\ UNCHANGED << nodes, appended, emitted, calls, armed, errors,
                     workflowDir, resolution >>

\* ------------------------------------------------------------------------
\* db.UpdateInstanceCurrentNodeAndContext returning an error
\* ------------------------------------------------------------------------
\* The statement the task is about to run fails (a locked or full database):
\* UpdateInstanceCurrentNodeAndContext returns the error with whatever its
\* earlier statement wrote left in place.  advanceInstance and
\* AdvanceInstanceAfterForm return it, ResumeWorkflowsBySignal logs it and
\* continues with the next instance.
UpdateInstanceCurrentNodeAndContext_Error(t) ==
    /\ t.pc \in {"adv_insert", "adv_update", "emit_insert", "emit_update",
                 "form_insert", "form_update"}
    /\ calls < MaxCalls
    /\ calls' = calls + 1
    /\ errors' = errors \cup
            {[inst |-> t.inst, cur |-> t.cur, kind |-> "persist",
              newid |-> IF t.pc \in {"adv_update", "emit_update", "form_update"}
                        THEN t.newid ELSE NoID]}
    /\ tasks' = (tasks (-) One(t)) (+)
            (IF t.kind = "emit" THEN ResumeNext(t) ELSE EmptyBag)
    /\ UNCHANGED << instances, nodes, appended, emitted, armed, workflowDir, resolution >>

\* ------------------------------------------------------------------------
\* Process kill and restart (main holds no state besides the database)
\* ------------------------------------------------------------------------
Crash ==
    /\ tasks # EmptyBag
    /\ calls < MaxCalls
    /\ calls' = calls + 1
    /\ tasks' = EmptyBag
    /\ UNCHANGED << instances, nodes, appended, emitted, armed, errors,
                     workflowDir, resolution >>

\* ------------------------------------------------------------------------
\* Specification
\* ------------------------------------------------------------------------
\* One step of a goroutine or handler in flight.
Run ==
    \/ \E t \in BagToSet(tasks) : SaveNewInstance_InsertNode(t)
    \/ \E t \in BagToSet(tasks) : SaveNewInstance_UpdateHead(t)
    \/ \E t \in BagToSet(tasks) : ExecuteNextNode(t)
    \/ \E t \in BagToSet(tasks) : TimeoutFire(t)
    \/ \E t \in BagToSet(tasks) : advanceInstance_Load(t)
    \/ \E t \in BagToSet(tasks) : advanceInstance_Insert(t)
    \/ \E t \in BagToSet(tasks) : advanceInstance_Update(t)
    \/ \E t \in BagToSet(tasks) : ResumeWorkflowsBySignal(t)
    \/ \E t \in BagToSet(tasks) : Resume_Load(t)
    \/ \E t \in BagToSet(tasks) : Resume_Insert(t)
    \/ \E t \in BagToSet(tasks) : Resume_Update(t)
    \/ \E t \in BagToSet(tasks) : AdvanceInstanceAfterForm_Load(t)
    \/ \E t \in BagToSet(tasks) : AdvanceInstanceAfterForm_Insert(t)
    \/ \E t \in BagToSet(tasks) : AdvanceInstanceAfterForm_Update(t)

\* The API requests.
Request ==
    \/ \E w \in WorkflowIDs : CreateNewInstance(w)
    \/ \E s \in Signals : EmitSignal(s)
    \/ \E i \in 1..MaxInstances, input \in FormInputs : submitFormHandler(i, input)

\* A failing statement of the database.
Fault ==
    \E t \in BagToSet(tasks) : UpdateInstanceCurrentNodeAndContext_Error(t)

Next ==
    \/ Request
    \/ Run
    \/ Fault
    \/ Crash

Spec == Init /\ [][Next]_vars

\* The process is never killed from outside and the Go scheduler runs every
\* goroutine: sleeping timers wake up, started goroutines take their steps.
FairNext ==
    \/ Request
    \/ Run

\* ------------------------------------------------------------------------
\* ResolveGatewayConditions on its own
\* ------------------------------------------------------------------------
\* The conditions the lists are made of.
GatewayConditions ==
    { WhenCondition("age", ">=", "30", "A", ""),
      WhenCondition("age", "<", "30", "B", "go"),
      WhenCondition("name", "==", "alice", "C", "done"),
      ElseCondition("D", "resume") }

GatewayConditionLists ==
    UNION { [1..n -> GatewayConditions] : n \in 0..MaxConditions }

\* The contexts of the instance entering the gateway.
GatewayContexts ==
    { EmptyContext,
      [k \in {"age"} |-> GoFloat64(5)],
      [k \in {"age"} |-> GoFloat64(30)],
      [k \in {"age"} |-> GoString("30")],
      [k \in {"name"} |-> GoString("alice")],
      [k \in {"age", "name"} |->
            IF k = "age" THEN GoFloat64(30) ELSE GoString("bob")] }

\* A gateway node and a context to resolve it on; no instance exists.
ResolveInit ==
    /\ Started
    /\ workflowDir = {}
    /\ resolution \in
            { [NoResolution EXCEPT !.conditions = cs, !.context = c] :
                cs \in GatewayConditionLists, c \in GatewayContexts }

\* The call of ResolveGatewayConditions.
Resolve ==
    /\ ~resolution.returned
    /\ resolution' =
            [resolution EXCEPT
                !.returned = TRUE,
                !.result = ResolveGatewayConditions(
                               [conditions |-> resolution.conditions],
                               resolution.context)]
    /\ UNCHANGED << instances, nodes, tasks, appended, emitted, calls, armed,
                     errors, workflowDir >>

ResolveSpec == ResolveInit /\ [][Resolve]_vars

\* ------------------------------------------------------------------------
\* evaluateSimpleCondition on its own
\* ------------------------------------------------------------------------
\* The expressions <path> <op> <literal>; the operator "" stands for an
\* expression in which none of the six operators occurs.
ConditionExpressions ==
    [path : {"age", "name", "email"},
     op   : {">=", "<=", "==", "!=", ">", "<", ""},
     lit  : {"30", "5", "alice", "bob"}]

\* A Go bool of the context map.
GoBool(b) == [t |-> "bool", v |-> b]

\* The contexts the expression is evaluated on: values as json.Unmarshal
\* yields them (float64, string, bool), as Go code can put them (int) and as
\* the script sandbox exports them (int64).
ConditionContexts ==
    GatewayContexts \cup
    { [k \in {"age"} |-> GoString("5")],
      [k \in {"age"} |-> [t |-> "int", v |-> 30]],
      [k \in {"age"} |-> GoInt64(5)],
      [k \in {"age"} |-> GoBool(TRUE)],
      [k \in {"name"} |-> GoString("bob")],
      [k \in {"name"} |-> GoFloat64(5)] }

\* No call of evaluateSimpleCondition under examination.
NoEvaluation ==
    [when |-> [path |-> "", op |-> "", lit |-> ""], context |-> EmptyContext,
     returned |-> FALSE, result |-> [err |-> FALSE, res |-> FALSE]]

\* An expression and a context to evaluate it on; no instance exists.  The
\* call is kept in the variable "resolution".
EvaluateInit ==
    /\ Started
    /\ workflowDir = {}
    /\ resolution \in
            { [NoEvaluation EXCEPT !.when = w, !.context = c] :
                w \in ConditionExpressions, c \in ConditionContexts }

\* The call of evaluateSimpleCondition.
Evaluate ==
    /\ ~resolution.returned
    /\ resolution' =
            [resolution EXCEPT
                !.returned = TRUE,
                !.result = evaluateSimpleCondition(resolution.when,
                                                   resolution.context)]
    /\ UNCHANGED << instances, nodes, tasks, appended, emitted, calls, armed,
                     errors, workflowDir >>

EvaluateSpec == EvaluateInit /\ [][Evaluate]_vars

\* ------------------------------------------------------------------------
\* EvaluateCondition (eval_bool) on its own
\* ------------------------------------------------------------------------
\* A JavaScript value: t is its type, v its value.
JSValue(t, v) == [t |-> t, v |-> v]

JSUndefined == JSValue("undefined", 0)

JSNull == JSValue("null", 0)

\* vm.ToValue of a value of the context map.
ToValue(x) ==
    CASE x.t = "string" -> JSValue("string", x.v)
      [] x.t = "bool"   -> JSValue("boolean", x.v)
      [] OTHER          -> JSValue("number", x.v)

\* JavaScript's ToNumber on the values that occur; NaN for a string that is
\* not a numeric literal and for undefined.
ToNumber(val) ==
    LET number(n) == [nan |-> FALSE, v |-> n]
    IN  CASE val.t = "number"  -> number(val.v)
          [] val.t = "boolean" -> number(IF val.v THEN 1 ELSE 0)
          [] val.t = "null"    -> number(0)
          [] val.t = "string" /\ val.v \in DOMAIN NumericLiterals
                               -> number(NumericLiterals[val.v])
          [] val.t = "string" /\ val.v = "" -> number(0)
          [] OTHER             -> [nan |-> TRUE, v |-> 0]

\* The decoded condition scripts: "garbled" is not a program.
ConditionCodes ==
    {"is_adult", "age", "yes", "no", "null", "nothing", "throws", "garbled"}

\* vm.RunString of a decoded condition script with process_data bound to
\* the context: a throw, or the value of the last expression.
RunCondition(code, context) ==
    LET age == IF "age" \in DOMAIN context THEN ToValue(context["age"])
               ELSE JSUndefined
        returns(val) == [throws |-> FALSE, val |-> val]
    IN  CASE code = "is_adult" ->   \* process_data.age >= 30
                returns(JSValue("boolean",
                    ~ToNumber(age).nan /\ ToNumber(age).v >= 30))
          [] code = "age" ->        \* process_data.age
                returns(age)
          [] code = "yes" -> returns(JSValue("boolean", TRUE))
          [] code = "no" -> returns(JSValue("boolean", FALSE))
          [] code = "null" -> returns(JSNull)
          [] code = "nothing" ->    \* var x = 1;
                returns(JSUndefined)
          [] OTHER -> [throws |-> TRUE, val |-> JSUndefined]

\* EvaluateCondition: run the script; undefined and null count as false, a
\* boolean is returned, any other value is an error.
EvaluateCondition(base64Condition, context) ==
    LET run == RunCondition(base64Condition, context)
    IN  IF run.throws THEN [err |-> TRUE, res |-> FALSE]
        ELSE IF run.val.t \in {"undefined", "null"}
        THEN [err |-> FALSE, res |-> FALSE]
        ELSE IF run.val.t = "boolean"
        THEN [err |-> FALSE, res |-> run.val.v]
        ELSE [err |-> TRUE, res |-> FALSE]

\* No call of EvaluateCondition under examination.
NoCondition ==
    [code |-> "", context |-> EmptyContext, returned |-> FALSE,
     result |-> [err |-> FALSE, res |-> FALSE]]

\* A condition script and a context to run it on; no instance exists.  The
\* call is kept in the variable "resolution".
ConditionInit ==
    /\ Started
    /\ workflowDir = {}
    /\ resolution \in
            { [NoCondition EXCEPT !.code = c, !.context = ctx] :
                c \in ConditionCodes, ctx \in ConditionContexts }

\* The call of EvaluateCondition.
RunEvaluateCondition ==
    /\ ~resolution.returned
    /\ resolution' =
            [resolution EXCEPT
                !.returned = TRUE,
                !.result = EvaluateCondition(resolution.code,
                                             resolution.context)]
    /\ UNCHANGED << instances, nodes, tasks, appended, emitted, calls, armed,
                     errors, workflowDir >>

ConditionSpec == ConditionInit /\ [][RunEvaluateCondition]_vars

FairSpec == Init /\ [][FairNext]_vars /\ WF_vars(Run)

\* ExecuteNextNode called on an instance as db.SaveNewInstance writes it, for
\* any waiting signal and any expires_at: one head, its row at start_node,
\* and the call in flight.
GuardInit ==
    /\ workflowDir \in WorkflowDirs
    /\ \E w \in workflowDir, ws \in {""} \cup Signals, exp \in ExpiresAtValues :
        LET ctx == ToJSON([k \in {"instanceID"} |-> GoString("1")])
            id  == << "start_node", 1 >>
        IN  /\ GetNodeByID(w, "start_node") # NilNode
            /\ instances = << [workflow_id |-> w,
                               current_node_instance_id |-> id,
                               context |-> ctx,
                               waiting_signal |-> ws,
                               expires_at |-> exp] >>
            /\ nodes = [i \in 1..MaxInstances |->
                         IF i = 1
                         THEN << NodeRow(id, 1, "start_node", ctx, ws, exp) >>
                         ELSE << >>]
    /\ tasks = One(ExecTask(1))
    /\ appended = {}
    /\ emitted = {}
    /\ calls = 0
    /\ armed = {}
    /\ errors = {}
    /\ resolution = NoResolution

\* The call and what it starts: the timeout goroutine, advanceInstance, the
\* goroutine of an emitted signal.
GuardNext ==
    \/ \E t \in BagToSet(tasks) : ExecuteNextNode(t)
    \/ \E t \in BagToSet(tasks) : TimeoutFire(t)
    \/ \E t \in BagToSet(tasks) : advanceInstance_Load(t)
    \/ \E t \in BagToSet(tasks) : advanceInstance_Insert(t)
    \/ \E t \in BagToSet(tasks) : advanceInstance_Update(t)
    \/ \E t \in BagToSet(tasks) : ResumeWorkflowsBySignal(t)

GuardSpec == GuardInit /\ [][GuardNext]_vars

\* ------------------------------------------------------------------------
\* Properties
\* ------------------------------------------------------------------------
\* The row with a given ID.
RowByID(i, id) == CHOOSE r \in Range(nodes[i]) : r.id = id

HasRow(i, id) == \E r \in Range(nodes[i]) : r.id = id

\* Definition of the node of a row of instance i.
DefOfRow(i, r) == GetNodeByID(instances[i].workflow_id, r.node_id)

\* The row the head of instance i points to exists.
HeadResolves(i) ==
    /\ i \in DOMAIN instances
    /\ HasRow(i, instances[i].current_node_instance_id)

\* Definition of the node the head of instance i is at.
HeadDef(i) ==
    DefOfRow(i, RowByID(i, instances[i].current_node_instance_id))

\* C1: for any node-execution ID e, at most one row is appended by an actor
\* (worker, timer, form submission, signal emit) that decided to advance
\* while e was the head's current node-execution ID.
C1_AtMostOneTransitionOut ==
    \A a, b \in appended :
        (a.by # "create" /\ b.by # "create" /\ a.inst = b.inst /\ a.from = b.from)
            => a = b

\* C2: in every state each instance's log is a chain of distinct rows and
\* the head's current node-execution ID is the ID of the newest row.
C2_HeadIsNewestRow ==
    \A i \in DOMAIN instances :
        /\ Len(nodes[i]) > 0
        /\ \A j, k \in 1..Len(nodes[i]) : nodes[i][j].id = nodes[i][k].id => j = k
        /\ instances[i].current_node_instance_id = nodes[i][Len(nodes[i])].id

\* C3: the row appended when a script node ran successfully holds the
\* context returned by the script, and so does the head while it points to
\* that row.
C3_ScriptOutputReplacesContext ==
    \A a \in appended :
        (a.by = "exec" /\ DefOfRow(a.inst, RowByID(a.inst, a.from)).type = "script")
        => LET def == DefOfRow(a.inst, RowByID(a.inst, a.from))
               in  == FromJSON(RowByID(a.inst, a.from).context)
               out == ToJSON(ExecuteScript(def.script, in).ctx)
           IN  /\ RowByID(a.inst, a.id).context = out
               /\ instances[a.inst].current_node_instance_id = a.id
                      => instances[a.inst].context = out

\* C5: however many times a signal is emitted, an instance gets at most one
\* wake record.
C5_OneWakeRecord ==
    \A i \in DOMAIN instances :
        Cardinality({a \in appended : a.inst = i /\ a.by = "signal"}) <= 1

\* C6: when the waiting set is read for a signal thrown by a gateway, the
\* advance out of that gateway execution has been recorded: the row is
\* appended and the head no longer points to the gateway execution.
C6_ThrowAfterAdvance ==
    \A e \in emitted : \A i \in DOMAIN instances :
        (HasRow(i, e.src) /\ DefOfRow(i, RowByID(i, e.src)).type = "gateway")
        => /\ \E a \in appended : a.inst = i /\ a.from = e.src
           /\ instances[i].current_node_instance_id # e.src

\* C8: every row that enters a node defining signal.catch carries that
\* signal as waiting_signal.
C8_CatchNodesPause ==
    \A i \in DOMAIN instances : \A a \in appended :
        (a.inst = i /\ a.by # "signal"
            /\ DefOfRow(i, RowByID(i, a.id)) # NilNode
            /\ DefOfRow(i, RowByID(i, a.id)).catch # "")
        => RowByID(i, a.id).waiting_signal = DefOfRow(i, RowByID(i, a.id)).catch

\* C9: every node ID stored in a row of an instance resolves to a node of
\* the instance's definition.
C9_NodeIDsResolve ==
    \A i \in DOMAIN instances : \A r \in Range(nodes[i]) :
        DefOfRow(i, r) # NilNode

\* C10: a row carries an expires_at exactly when its node defines a timeout,
\* and the head carries the expires_at of the row it points to.
C10_ExpiresAtFromTimeout ==
    \A i \in DOMAIN instances :
        /\ \A r \in Range(nodes[i]) :
              DefOfRow(i, r) # NilNode =>
                ((r.expires_at # NULL) <=> (DefOfRow(i, r).timeout # NoTimeout))
        /\ HeadResolves(i) /\ HeadDef(i) # NilNode =>
              ((instances[i].expires_at # NULL) <=> (HeadDef(i).timeout # NoTimeout))

\* No goroutine or handler is in flight: no sleeping timer, no worker, no
\* emit.  Only a new API request can change the state from here.
Quiescent == tasks = EmptyBag

\* Instance i is at a form node that defines a timeout.
AtFormWithTimeout(i) ==
    /\ HeadResolves(i)
    /\ HeadDef(i).type = "form"
    /\ HeadDef(i).timeout # NoTimeout

\* C4: an instance that entered a form node with a timeout and gets no form
\* submission is eventually moved to timeout.next; so, in a process that is
\* never killed, the goroutines cannot all have finished while an instance
\* still rests at such a form node.
C4_FormTimeoutFires ==
    \A i \in DOMAIN instances : Quiescent => ~AtFormWithTimeout(i)

\* Instance i is at an end node that defines signal.emit.
AtEndWithEmit(i) ==
    /\ HeadResolves(i)
    /\ HeadDef(i).type = "end"
    /\ HeadDef(i).emit # ""

\* The signal of the end node instance i is at has been emitted for this
\* node execution.
EndSignalEmitted(i) ==
    \E m \in emitted :
        /\ m.sig = HeadDef(i).emit
        /\ m.src = instances[i].current_node_instance_id

\* C7: whenever an instance reaches an end node with signal.emit, the signal
\* is eventually emitted; so, in a process that is never killed, once the
\* goroutines have all finished the signal of an instance resting at such an
\* end node has been emitted.
C7_EndSignalEmitted ==
    \A i \in DOMAIN instances :
        (Quiescent /\ AtEndWithEmit(i)) => EndSignalEmitted(i)

\* ------------------------------------------------------------------------
\* Restart, terminal nodes
\* ------------------------------------------------------------------------
\* A node the engine leaves by itself: a start, script or gateway node that
\* catches no signal.
AutoNode(def) ==
    /\ def.type \in {"start", "script", "gateway"}
    /\ def.catch = ""

\* An operation on the node execution instance i is at has returned an error.
Failed(i) ==
    \E e \in errors :
        e.inst = i /\ e.cur = instances[i].current_node_instance_id

\* C11: an instance advanced to an auto-transition node continues after a
\* kill and restart of the process; so there is no state with nothing left
\* in flight in which an instance rests, without an error, at the
\* auto-transition node its newest row, committed by an advance, is for,
\* when executing that node would advance it.
C11_RestartContinues ==
    \A i \in DOMAIN instances :
        (/\ Quiescent
         /\ HeadResolves(i)
         /\ Len(nodes[i]) > 1
         /\ instances[i].current_node_instance_id = nodes[i][Len(nodes[i])].id
         /\ AutoNode(HeadDef(i))
         /\ Dispatch(GetInstanceAndDefinition(i)).advance)
        => Failed(i)

\* C12: a timeout armed before the process stops is armed again at startup;
\* so there is no state with nothing left in flight in which an instance is
\* still at the node execution a timeout was armed for.
C12_TimeoutsRearmed ==
    \A i \in DOMAIN instances :
        \A a \in armed :
            ~(/\ Quiescent
              /\ a.inst = i
              /\ instances[i].current_node_instance_id = a.cur)

\* Instance i is at an end node.
AtEnd(i) ==
    /\ HeadResolves(i)
    /\ HeadDef(i).type = "end"

\* C13: once the head of an instance references a node execution of an end
\* node, no step appends a row to its log or changes its head.
C13_EndIsTerminal ==
    [][\A i \in DOMAIN instances :
            AtEnd(i) => /\ nodes'[i] = nodes[i]
                        /\ instances'[i] = instances[i]]_vars

\* ------------------------------------------------------------------------
\* Form submission
\* ------------------------------------------------------------------------
\* The JSON form of a submitted value: r.Form holds strings.
SubmittedValue(v) == [j |-> "string", v |-> v]

\* No two rows of instance i were appended by actors that decided on the
\* same node execution.
NoRace(i) ==
    \A a, b \in appended :
        (a.inst = i /\ b.inst = i /\ a.by # "create" /\ b.by # "create"
            /\ a.from = b.from) => a = b

\* C14: the row a form submission appends for an instance at a form node is
\* for the form's next node, and its context holds every submitted key with
\* the submitted value and every other key of the form's node execution with
\* the value it had; the head it commits carries the same context.
C14_FormMergesContext ==
    \A i \in DOMAIN instances :
        \A a \in appended :
            (a.inst = i /\ a.by = "form")
            => LET row  == RowByID(i, a.id)
                   prev == RowByID(i, a.from)
               IN  /\ row.node_id = DefOfRow(i, prev).next
                   /\ DOMAIN row.context =
                        (DOMAIN prev.context) \cup (DOMAIN a.input)
                   /\ \A k \in DOMAIN a.input :
                        row.context[k] = SubmittedValue(a.input[k])
                   /\ \A k \in (DOMAIN prev.context) \ (DOMAIN a.input) :
                        row.context[k] = prev.context[k]
                   /\ instances[i].current_node_instance_id = a.id
                        => instances[i].context = row.context

\* ------------------------------------------------------------------------
\* Persistence errors
\* ------------------------------------------------------------------------
\* C15: a call of the append-and-update-head operation that returned an
\* error has changed nothing; in particular the log holds no row written by
\* that call.
C15_ErrorLeavesNoRow ==
    \A e \in errors :
        e.kind = "persist" => ~(e.newid # NoID /\ HasRow(e.inst, e.newid))

\* ------------------------------------------------------------------------
\* Gateway resolution
\* ------------------------------------------------------------------------
\* A branch matches: its "when" evaluates, without error, to true, or it has
\* no "when" and is an else branch.
BranchMatches(cond, context) ==
    IF cond.when.path # ""
    THEN /\ ~evaluateSimpleCondition(cond.when, context).err
         /\ evaluateSimpleCondition(cond.when, context).res
    ELSE cond.else

\* The "when" of a branch fails to evaluate.
BranchErrors(cond, context) ==
    /\ cond.when.path # ""
    /\ evaluateSimpleCondition(cond.when, context).err

\* C16: the resolver returns the next and the signal.throw of the branch that
\* matches and has no matching branch before it in the list, branches whose
\* "when" fails to evaluate being passed over; it returns an error exactly
\* when no branch matches.
C16_FirstMatchWins ==
    resolution.returned =>
        LET cs  == resolution.conditions
            ctx == resolution.context
            r   == resolution.result
            matching == {k \in 1..Len(cs) : BranchMatches(cs[k], ctx)}
        IN  /\ r.err <=> matching = {}
            /\ ~r.err =>
                 \E k \in matching :
                    /\ \A j \in 1..(k - 1) : j \notin matching
                    /\ r.next = cs[k].next
                    /\ r.throw = cs[k].throw

\* The resolver has returned the second branch of a list whose first branch
\* failed to evaluate and whose third branch matches as well, with another
\* target.
C16_Witness ==
    /\ resolution.returned
    /\ Len(resolution.conditions) = 3
    /\ BranchErrors(resolution.conditions[1], resolution.context)
    /\ BranchMatches(resolution.conditions[2], resolution.context)
    /\ BranchMatches(resolution.conditions[3], resolution.context)
    /\ resolution.conditions[3].next # resolution.conditions[2].next
    /\ resolution.result.next = resolution.conditions[2].next

\* A gateway with the conditions [{when: "age >= 30", next: A},
\* {else: true, next: B}].
AgeGateway(def) ==
    /\ def.type = "gateway"
    /\ Len(def.conditions) = 2
    /\ def.conditions[1].when = [path |-> "age", op |-> ">=", lit |-> "30"]
    /\ def.conditions[2].when.path = ""
    /\ def.conditions[2].else

\* Row a of instance i was appended by the worker that executed such a
\* gateway on a context without the key age.
AdvancedFromAgeGatewayWithoutAge(i, a) ==
    /\ a.inst = i /\ a.by = "exec"
    /\ HasRow(i, a.from)
    /\ AgeGateway(DefOfRow(i, RowByID(i, a.from)))
    /\ "age" \notin DOMAIN RowByID(i, a.from).context

\* C17 as stated: such a gateway errors when age is absent, so no worker
\* advances an instance from it to A or to B.
C17_GatewayErrorsWithoutAge ==
    \A i \in DOMAIN instances :
        \A a \in appended : ~AdvancedFromAgeGatewayWithoutAge(i, a)

\* C17: with age absent the "when" branch fails to evaluate and is passed
\* over, the else branch matches, and the worker advances the instance to B
\* without an error of the gateway.
C17_ElseTakenWithoutAge ==
    \A i \in DOMAIN instances :
        \A a \in appended :
            AdvancedFromAgeGatewayWithoutAge(i, a) =>
                /\ RowByID(i, a.id).node_id =
                      DefOfRow(i, RowByID(i, a.from)).conditions[2].next
                /\ ~\E e \in errors :
                      e.inst = i /\ e.cur = a.from /\ e.kind = "gateway"

\* An instance has been moved from such a gateway to B.
C17_Witness ==
    \E i \in DOMAIN instances :
        \E a \in appended :
            /\ AdvancedFromAgeGatewayWithoutAge(i, a)
            /\ instances[i].current_node_instance_id = a.id
            /\ HeadDef(i).id =
                  DefOfRow(i, RowByID(i, a.from)).conditions[2].next

\* ------------------------------------------------------------------------
\* Failing nodes
\* ------------------------------------------------------------------------
\* Row r of instance i is for a gateway none of whose branches matches on the
\* context of the row.
GatewayWithoutMatch(i, r) ==
    /\ DefOfRow(i, r).type = "gateway"
    /\ \A k \in 1..Len(DefOfRow(i, r).conditions) :
            ~BranchMatches(DefOfRow(i, r).conditions[k], FromJSON(r.context))

\* C18: for a node execution of a gateway no branch of which matches, no
\* worker appends a row and no signal is thrown; the error ExecuteNextNode
\* returns for a gateway is for such a node execution, and the head still
\* references it.
C18_NoMatchHalts ==
    \A i \in DOMAIN instances :
        /\ \A r \in Range(nodes[i]) :
                GatewayWithoutMatch(i, r) =>
                    /\ ~\E a \in appended :
                            a.inst = i /\ a.from = r.id /\ a.by = "exec"
                    /\ ~\E m \in emitted : m.src = r.id
        /\ \A e \in errors :
                (e.inst = i /\ e.kind = "gateway") =>
                    /\ HasRow(i, e.cur)
                    /\ GatewayWithoutMatch(i, RowByID(i, e.cur))
                    /\ instances[i].current_node_instance_id = e.cur

\* A worker has returned the error of a gateway without a matching branch
\* and nothing is left in flight.
C18_Witness ==
    /\ Quiescent
    /\ \E e \in errors :
            /\ e.kind = "gateway"
            /\ GatewayWithoutMatch(e.inst, RowByID(e.inst, e.cur))
            /\ Len(DefOfRow(e.inst, RowByID(e.inst, e.cur)).conditions) > 0

\* The script of a script node fails: there is no script configuration, the
\* code does not decode to a program, or the program throws.
FailingScript(def) ==
    /\ def.type = "script"
    /\ \/ def.script = NoScript
       \/ def.script \notin DOMAIN ScriptPrograms
       \/ ScriptPrograms[def.script].throws

\* C19: for a node execution of a script node whose script fails, no worker
\* appends a row; a worker that executed it (and started its timeout) has
\* returned a script error; a script error is for such a node execution, and
\* a head still referencing it carries the context of its row.
C19_ScriptErrorAborts ==
    \A i \in DOMAIN instances :
        /\ \A r \in Range(nodes[i]) :
                FailingScript(DefOfRow(i, r)) =>
                    ~\E a \in appended :
                        a.inst = i /\ a.from = r.id /\ a.by = "exec"
        /\ \A t \in armed :
                (t.inst = i /\ FailingScript(DefOfRow(i, RowByID(i, t.cur))))
                => \E e \in errors :
                      e.inst = i /\ e.cur = t.cur /\ e.kind = "script"
        /\ \A e \in errors :
                (e.inst = i /\ e.kind = "script") =>
                    /\ HasRow(i, e.cur)
                    /\ FailingScript(DefOfRow(i, RowByID(i, e.cur)))
                    /\ instances[i].current_node_instance_id = e.cur
                          => instances[i].context = RowByID(i, e.cur).context

\* Workers have returned the error of a throwing script, of a script node
\* without script configuration and of a code that is no program.
C19_Witness ==
    \E i \in DOMAIN instances :
        /\ \E e \in errors :
                /\ e.inst = i /\ e.kind = "script"
                /\ DefOfRow(i, RowByID(i, e.cur)).script = "throws"
        /\ \E e \in errors :
                /\ e.inst = i /\ e.kind = "script"
                /\ DefOfRow(i, RowByID(i, e.cur)).script = NoScript
        /\ \E e \in errors :
                /\ e.inst = i /\ e.kind = "script"
                /\ DefOfRow(i, RowByID(i, e.cur)).script
                        \notin (DOMAIN ScriptPrograms) \cup {NoScript}

\* ------------------------------------------------------------------------
\* Paused instances
\* ------------------------------------------------------------------------
\* Instance i is paused on a signal at a node that defines a timeout.
PausedWithTimeout(i) ==
    /\ HeadResolves(i)
    /\ instances[i].waiting_signal # ""
    /\ HeadDef(i).catch = instances[i].waiting_signal
    /\ HeadDef(i).timeout # NoTimeout

\* C20: an instance paused on signal.catch at a node with a timeout has the
\* timeout armed and, the signal not being emitted, is eventually moved to
\* timeout.next; so, in a process that is never killed, the goroutines
\* cannot all have finished while an instance is still paused at such a
\* node.
C20_PausedTimeoutArmed ==
    \A i \in DOMAIN instances : Quiescent => ~PausedWithTimeout(i)


\* The timers in flight that have not made their test yet.
SleepingTimers == {t \in BagToSet(tasks) : t.kind = "timer" /\ t.pc = "sleep"}

\* A form submission has committed the transition out of the node execution
\* timer t was started for: the head references the row it appended.
FormCommittedBefore(t) ==
    \E a \in appended :
        /\ a.by = "form" /\ a.inst = t.inst /\ a.from = t.cur
        /\ instances[t.inst].current_node_instance_id = a.id

\* No goroutine of a timer started for node execution e of instance i is in
\* flight.
NoTimerInFlight(i, e) ==
    \A u \in BagToSet(tasks) : ~(u.kind = "timer" /\ u.inst = i /\ u.cur = e)

\* Every call so far was a start request or a form submission that appended
\* a row: no statement has failed and the process has not been killed.
RequestsOnly ==
    Cardinality({b \in appended : b.by \in {"create", "form"}}) = calls

\* C21: when a form submission has committed before the timer of the form
\* node makes its test, the head is at the form's next node, and the step in
\* which the timer ends its sleep appends no row, leaves every head unchanged
\* and starts no transition of the timer.
C21_LateTimerDiscarded ==
    [][\A t \in SleepingTimers :
            FormCommittedBefore(t) =>
                /\ HeadDef(t.inst).id = DefOfRow(t.inst, RowByID(t.inst, t.cur)).next
                /\ (CopiesIn(t, tasks') < CopiesIn(t, tasks)) =>
                    /\ nodes' = nodes
                    /\ instances' = instances
                    /\ \A u \in BagToSet(tasks') :
                            (u.kind = "timer" /\ u.pc # "sleep")
                                => CopiesIn(u, tasks') <= CopiesIn(u, tasks)]_vars

\* A timer was started for a form node execution, a form submission moved
\* the head from it to the form's next node, the timer is gone and no row was
\* appended for it.
C21_Witness ==
    \E a \in appended, m \in armed :
        /\ a.by = "form" /\ a.inst = m.inst /\ a.from = m.cur
        /\ DefOfRow(a.inst, RowByID(a.inst, a.from)).type = "form"
        /\ instances[a.inst].current_node_instance_id = a.id
        /\ NoTimerInFlight(a.inst, a.from)
        /\ \A b \in appended : ~(b.by = "timer" /\ b.inst = a.inst /\ b.from = a.from)
        /\ RequestsOnly

\* C22: a timer goes on to its transition only in a step taken while the
\* head references the node execution the timer was started for.
C22_TimerBoundToExecution ==
    [][\A u \in BagToSet(tasks') :
            (u.kind = "timer" /\ u.pc = "adv_load"
                /\ CopiesIn(u, tasks') > CopiesIn(u, tasks))
            => instances[u.inst].current_node_instance_id = u.cur]_vars

\* A timer was started for one execution of a node, the head references a
\* later execution of the same node, the timer is gone and no row was
\* appended for it.
C22_Witness ==
    \E m \in armed :
        LET head == instances[m.inst].current_node_instance_id
        IN  /\ head # m.cur
            /\ Len(head) = 3 /\ Len(m.cur) = 3
            /\ head[1] = m.cur[1]
            /\ head[3] > m.cur[3]
            /\ NoTimerInFlight(m.inst, m.cur)
            /\ RequestsOnly

\* The start node of the definition of instance i.
StartNodeOf(i) == GetNodeByID(instances[i].workflow_id, "start_node")

\* Instance i was in the waiting set read by an emit of signal s.
InWaitingSetRead(i, s) ==
    \E m \in emitted : m.sig = s /\ i \in Range(m.ids)

\* Instance i is where its creation put it: paused on s at the execution of
\* start_node that is its only row.
PausedAtStart(i, s) ==
    /\ instances[i].waiting_signal = s
    /\ Len(nodes[i]) = 1
    /\ instances[i].current_node_instance_id = nodes[i][1].id
    /\ nodes[i][1].node_id = "start_node"

\* C23: an emit of s wakes exactly the waiting set it reads; so, in a process
\* that is never killed, once nothing is left in flight every instance that
\* was in the waiting set read by an emit of s has waiting_signal cleared and
\* is no longer at its catching node, and every instance created paused on s
\* that was in no waiting set read is still paused at start_node.
C23_BroadcastWakesWaitingSet ==
    Quiescent =>
        \A i \in DOMAIN instances :
            LET s == StartNodeOf(i).catch
            IN  /\ (s # "" /\ InWaitingSetRead(i, s)) =>
                    /\ instances[i].waiting_signal = ""
                    /\ HeadResolves(i)
                    /\ HeadDef(i).id # "start_node"
                /\ (s # "" /\ ~InWaitingSetRead(i, s)) => PausedAtStart(i, s)

\* Some emit of s read a waiting set without instance i.
EmittedWithout(i, s) ==
    \E m \in emitted : m.sig = s /\ i \notin Range(m.ids)

\* C24: a signal is not kept for instances created later: an instance whose
\* start node catches s and that was in no waiting set read by an emit of s
\* is paused at start_node, whatever emits of s found no instance waiting
\* before, and no emit in flight is going to wake it.
C24_SignalsNotBuffered ==
    \A i \in DOMAIN instances :
        LET s == StartNodeOf(i).catch
        IN  (s # "" /\ HeadResolves(i) /\ ~InWaitingSetRead(i, s)) =>
                /\ PausedAtStart(i, s)
                /\ \A u \in BagToSet(tasks) :
                        u.kind = "emit" => i \notin Range(u.ids)

\* A signal was emitted while no instance waited, and an instance catching
\* it, created afterwards, is paused at start_node with nothing in flight.
C24_Witness ==
    \E i \in DOMAIN instances :
        LET s == StartNodeOf(i).catch
        IN  /\ s # ""
            /\ EmittedWithout(i, s)
            /\ ~InWaitingSetRead(i, s)
            /\ HeadResolves(i)
            /\ PausedAtStart(i, s)
            /\ Quiescent

\* The step that completes the creation of instance i: SaveNewInstance's
\* UPDATE of the head pointer.
CreationCompletes(i) ==
    /\ i \in DOMAIN instances
    /\ instances[i].current_node_instance_id = NoID
    /\ instances'[i].current_node_instance_id # NoID

\* Instance i is paused at start_node on the signal its start node catches.
PausedOnCatch(i) ==
    /\ StartNodeOf(i).catch # ""
    /\ PausedAtStart(i, StartNodeOf(i).catch)

\* The rows appended by a signal wake in this step.
WakeRows == {a \in appended' \ appended : a.by = "signal"}

\* C25: the step that completes a creation starts an execution exactly when
\* the start node catches no signal; an instance whose start node catches s
\* is created with one row at start_node and waiting_signal s, no execution
\* or timer of it is in flight while it is paused, and the only step that
\* changes its rows or its head is the append of a signal wake.
C25_CatchingStartCreatesPaused ==
    [][\A i \in DOMAIN instances :
        /\ CreationCompletes(i) =>
            /\ (StartNodeOf(i).catch = "")
                    <=> (CopiesIn(ExecTask(i), tasks')
                            > CopiesIn(ExecTask(i), tasks))
            /\ StartNodeOf(i).catch # "" => PausedOnCatch(i)'
        /\ (HeadResolves(i) /\ PausedOnCatch(i)) =>
            /\ \A u \in BagToSet(tasks) :
                    u.inst = i => u.kind \notin {"exec", "timer"}
            /\ (instances'[i] # instances[i] \/ nodes'[i] # nodes[i])
                    => \E a \in WakeRows : a.inst = i]_vars

\* An instance with a catching start node was created by the only request
\* so far and is paused at start_node with nothing in flight.
C25_Witness ==
    \E i \in DOMAIN instances :
        /\ StartNodeOf(i).catch # ""
        /\ HeadResolves(i)
        /\ PausedAtStart(i, StartNodeOf(i).catch)
        /\ Quiescent
        /\ calls = 1

\* A create request for workflowID fails: the directory has no definition
\* for the ID, or the definition has no node start_node.
CreateFails(workflowID) ==
    \/ workflowID \notin workflowDir
    \/ GetNodeByID(workflowID, "start_node") = NilNode

\* C26: a create request for a workflow ID without a definition, or for a
\* definition without a node start_node, creates nothing; so every head is
\* the head of an instance of a definition of the directory that has a
\* start_node, and no row and no execution exists without a head.
C26_FailedCreateCreatesNothing ==
    /\ \A i \in DOMAIN instances : ~CreateFails(instances[i].workflow_id)
    /\ \A i \in 1..MaxInstances :
            i \notin DOMAIN instances =>
                /\ nodes[i] = << >>
                /\ \A u \in BagToSet(tasks) : u.inst # i

\* Two requests have been answered in a directory that holds a definition
\* without start_node, none of them an emit, and there is no instance, no
\* row and nothing in flight: both were create requests that failed.
C26_Witness ==
    /\ "headless" \in workflowDir
    /\ calls = 2
    /\ emitted = {}
    /\ instances = << >>
    /\ \A i \in 1..MaxInstances : nodes[i] = << >>
    /\ tasks = EmptyBag

\* The head of instance i makes ExecuteNextNode return at its guard.
Guarded(i) ==
    \/ instances[i].waiting_signal # ""
    \/ instances[i].expires_at = "past"

\* C27: ExecuteNextNode called on an instance that waits for a signal or has
\* expired acts on nothing: as long as the head is such, no row has been
\* appended and the head is the one written at creation, no timeout has been
\* started, no signal emitted, no error returned, and nothing but the call
\* itself is in flight.
C27_GuardReturnsWithoutActing ==
    \A i \in DOMAIN instances :
        Guarded(i) =>
            /\ appended = {}
            /\ Len(nodes[i]) = 1
            /\ instances[i].current_node_instance_id = nodes[i][1].id
            /\ armed = {}
            /\ emitted = {}
            /\ errors = {}
            /\ \A u \in BagToSet(tasks) : u = ExecTask(i)

\* ExecuteNextNode has returned on an expired instance that waits for no
\* signal, and on nothing else was done.
C27_Witness ==
    /\ DOMAIN instances = {1}
    /\ instances[1].expires_at = "past"
    /\ instances[1].waiting_signal = ""
    /\ tasks = EmptyBag
    /\ appended = {}

\* Instance i is at a form node.
AtForm(i) ==
    /\ HeadResolves(i)
    /\ HeadDef(i).type = "form"

\* C28: a step that moves the head of an instance away from a node execution
\* of a form node commits a row appended by a form submission, or by the
\* timeout of that node execution, decided on that node execution.
C28_FormPauses ==
    [][\A i \in DOMAIN instances :
        (/\ AtForm(i)
         /\ instances'[i].current_node_instance_id
                # instances[i].current_node_instance_id)
        => \E a \in appended :
            /\ a.inst = i
            /\ a.id = instances'[i].current_node_instance_id
            /\ a.from = instances[i].current_node_instance_id
            /\ a.by \in {"form", "timer"}]_vars

\* C29: an instance that has been started keeps advancing on its own; so, in
\* a process that is never killed and whose database statements succeed,
\* once nothing is left in flight no instance is at a start, script or
\* gateway node that catches no signal unless an operation on that node
\* execution has returned an error.
C29_AdvancesUntilPauseOrEnd ==
    Quiescent =>
        \A i \in DOMAIN instances :
            (HeadResolves(i) /\ AutoNode(HeadDef(i))) => Failed(i)

\* The rows appended by the execution of a gateway node of instance i.
GatewayAdvances(i) ==
    {a \in appended :
        /\ a.inst = i /\ a.by = "exec"
        /\ HasRow(i, a.from)
        /\ DefOfRow(i, RowByID(i, a.from)).type = "gateway"}

\* C30: the row appended for the next node a gateway resolved carries the
\* context of the gateway's node execution, and so does the head that
\* references the row.
C30_GatewayKeepsContext ==
    \A i \in DOMAIN instances :
        \A a \in GatewayAdvances(i) :
            /\ RowByID(i, a.id).context = RowByID(i, a.from).context
            /\ instances[i].current_node_instance_id = a.id
                => instances[i].context = RowByID(i, a.from).context


\* ------------------------------------------------------------------------
\* The log, late submissions, sequential progress
\* ------------------------------------------------------------------------
\* Every row of the log is still there, at its place and with the same node
\* ID, context, waiting_signal and expires_at, after the step.
RowsKept ==
    \A i \in DOMAIN nodes : \A k \in 1..Len(nodes[i]) :
        /\ Len(nodes'[i]) >= k
        /\ nodes'[i][k] = nodes[i][k]

\* C31: the node-execution log is append-only: once a row is inserted no
\* operation (advance, form submission, signal wake, timeout) changes its
\* node ID, context, waiting_signal or expires_at, or deletes it.
C31_LogAppendOnly == [][RowsKept]_vars

\* An instance whose log has grown by a signal wake, an advance and a form
\* submission.
C31_Witness ==
    \E i \in DOMAIN instances :
        /\ Len(nodes[i]) >= 4
        /\ \A by \in {"create", "signal", "exec", "form"} :
              \E a \in appended : a.inst = i /\ a.by = by

\* The step appends a row for instance i on behalf of a form submission.
FormRowAppended(i) ==
    \E a \in appended' : a \notin appended /\ a.inst = i /\ a.by = "form"

\* The step points the head of instance i at a row appended on behalf of a
\* form submission.
FormHeadWritten(i) ==
    /\ instances'[i] # instances[i]
    /\ \E a \in appended :
          /\ a.inst = i /\ a.by = "form"
          /\ a.id = instances'[i].current_node_instance_id
          /\ a.id # instances[i].current_node_instance_id

\* C32: a form submission for an instance whose current node is not a form
\* node changes nothing, also when the instance leaves the form node between
\* the handler's check and its advance: a submission appends a row and
\* rewrites the head only while the head is at a form node.
C32_LateSubmissionChangesNothing ==
    [][\A i \in DOMAIN instances :
          (FormRowAppended(i) \/ FormHeadWritten(i))
              => (HeadResolves(i) /\ HeadDef(i).type = "form")]_vars

\* The rows appended by ExecuteNextNode workers that dispatched the node
\* execution e of instance i.
WorkerAdvances(i, e) ==
    {a \in appended : a.inst = i /\ a.by = "exec" /\ a.from = e}

\* C33: within one instance progress is sequential: each node-execution ID
\* is dispatched by at most one ExecuteNextNode worker, so no node execution
\* has two advances made by workers that dispatched it.
C33_OneWorkerPerExecution ==
    \A i \in DOMAIN instances : \A r \in Range(nodes[i]) :
        Cardinality(WorkerAdvances(i, r.id)) <= 1

\* ------------------------------------------------------------------------
\* Typed form values, condition evaluator
\* ------------------------------------------------------------------------
\* The number a JSON value of the context stands for.
NumberOf(x) == IF x.j = "number" THEN x.v ELSE SscanfFloat(x.v).num

\* C34: a number field submitted with a numeric value is stored in the
\* persisted context as a number, and a gateway [{when: "age >= 30", next:
\* A}, {else: true, next: B}] that follows routes on its numeric order: the
\* row a submission appends holds, under every field of the form, the value
\* MergeFormInputIntoContext gives it, and a worker leaves such a gateway
\* for A exactly when the age it holds is at least 30.
C34_NumberFieldsStoredAsNumbers ==
    \A i \in DOMAIN instances : \A a \in appended :
        /\ (a.inst = i /\ a.by = "form" /\ HasRow(i, a.from)) =>
              LET fields == DefOfRow(i, RowByID(i, a.from)).fields
                  typed  == ToJSON(MergeFormInputIntoContext(
                                      EmptyContext, fields, a.input))
              IN  \A k \in DOMAIN typed :
                      RowByID(i, a.id).context[k] = typed[k]
        /\ (/\ a.inst = i /\ a.by = "exec" /\ HasRow(i, a.from)
            /\ AgeGateway(DefOfRow(i, RowByID(i, a.from)))
            /\ "age" \in DOMAIN RowByID(i, a.from).context
            /\ NoRace(i)) =>
              LET g == RowByID(i, a.from)
                  conds == DefOfRow(i, g).conditions
              IN  RowByID(i, a.id).node_id =
                      IF NumberOf(g.context["age"]) >= 30
                      THEN conds[1].next ELSE conds[2].next

\* The order of two numbers, and of two strings byte by byte: -1, 0 or 1.
NumberOrder(a, b) == IF a < b THEN -1 ELSE IF a = b THEN 0 ELSE 1

ByteOrder(a, b) == NumberOrder(StringRank(a), StringRank(b))

\* What an operator says of two operands in the order c.
OperatorHolds(op, c) ==
    CASE op = "==" -> c = 0
      [] op = "!=" -> c # 0
      [] op = "<"  -> c = -1
      [] op = "<=" -> c # 1
      [] op = ">"  -> c = 1
      [] op = ">=" -> c # -1

\* C35: for an expression <path> <op> <literal> the evaluator compares
\* numerically when the resolved value is numeric (a Go float64 or int) and
\* the literal parses as a number, compares as strings, byte by byte, when
\* the resolved value is a string whether or not the literal parses as a
\* number, and returns an error, never true or false, for a missing path, a
\* numeric value with a non-numeric literal, a value of any other type, or a
\* missing operator.
C35_EvaluatorTypeRules ==
    ("when" \in DOMAIN resolution /\ resolution.returned) =>
        LET w   == resolution.when
            ctx == resolution.context
            r   == resolution.result
            present == w.path \in DOMAIN ctx
            val == ctx[w.path]
            numeric == present /\ val.t \in {"float64", "int"}
            string  == present /\ val.t = "string"
            parses  == w.lit \in DOMAIN NumericLiterals
        IN  /\ (w.op # "" /\ numeric /\ parses) =>
                 /\ ~r.err
                 /\ r.res = OperatorHolds(w.op,
                                NumberOrder(val.v, NumericLiterals[w.lit]))
            /\ (w.op # "" /\ string) =>
                 /\ ~r.err
                 /\ r.res = OperatorHolds(w.op, ByteOrder(val.v, w.lit))
            /\ (\/ w.op = ""
                \/ ~present
                \/ (numeric /\ ~parses)
                \/ (present /\ ~numeric /\ ~string)) =>
                 /\ r.err
                 /\ ~r.res

\* The evaluator has found "5" >= 30 true, the string "5" sorting after the
\* literal "30", and elsewhere 5 >= 30 false for the number 5.
C35_Witness ==
    /\ "when" \in DOMAIN resolution
    /\ resolution.returned
    /\ resolution.when = [path |-> "age", op |-> ">=", lit |-> "30"]
    /\ resolution.context = [k \in {"age"} |-> GoString("5")]
    /\ resolution.result = [err |-> FALSE, res |-> TRUE]
    /\ evaluateSimpleCondition(resolution.when,
                               [k \in {"age"} |-> GoFloat64(5)])
          = [err |-> FALSE, res |-> FALSE]

\* ------------------------------------------------------------------------
\* Script sandbox
\* ------------------------------------------------------------------------
\* C36: eval_bool returns the script's result only when it is a boolean;
\* any other result, undefined and null included, is reported as an error
\* and not as false.
C36_NonBooleanIsError ==
    ("code" \in DOMAIN resolution /\ resolution.returned) =>
        LET run == RunCondition(resolution.code, resolution.context)
            r   == resolution.result
        IN  IF ~run.throws /\ run.val.t = "boolean"
            THEN r = [err |-> FALSE, res |-> run.val.v]
            ELSE r.err

\* The ExecuteNextNode workers inside a script the sandbox has neither
\* returned from nor stopped.
WorkersInsideScript == {t \in BagToSet(tasks) : t.kind = "exec" /\ t.pc = "script"}

\* No goroutine or handler in flight can take a step.
Stalled == ~ENABLED Run

\* C37: every script node-step terminates: a script that does not finish
\* within its budget is stopped and reported as a script error at the
\* current node execution, so no worker blocks forever inside a script; when
\* no goroutine can take a step any more, no worker is inside a script.
C37_ScriptStepTerminates == Stalled => WorkersInsideScript = {}

\* ------------------------------------------------------------------------
\* Shape of the log
\* ------------------------------------------------------------------------
\* Row q may follow row r in the log of instance i: q is for the next of
\* r's node, for the next of one of its gateway branches or for its
\* timeout.next, or q is the wake record of a signal for r's node.
LegalStep(i, r, q) ==
    LET def == DefOfRow(i, r)
    IN  \/ def.next # "" /\ q.node_id = def.next
        \/ \E k \in 1..Len(def.conditions) : q.node_id = def.conditions[k].next
        \/ def.timeout # NoTimeout /\ q.node_id = def.timeout.next
        \/ /\ q.node_id = r.node_id
           /\ \E a \in appended : a.inst = i /\ a.id = q.id /\ a.by = "signal"

\* C38: every two consecutive rows of an instance's log are a legal step of
\* its definition; in particular a timeout transition is applied only from
\* the node that defines the timeout.
C38_ConsecutiveRowsLegal ==
    \A i \in DOMAIN instances : \A k \in 1..(Len(nodes[i]) - 1) :
        LegalStep(i, nodes[i][k], nodes[i][k + 1])

\* C39: in every state an instance whose head has a non-empty
\* waiting_signal is at its initial node execution: its log has exactly one
\* row, for start_node, the head references it, and waiting_signal is the
\* signal.catch of the start node; every row appended by an advance, a form
\* submission, a signal wake or a timeout has an empty waiting_signal.
C39_WaitingOnlyAtInitialExecution ==
    /\ \A i \in DOMAIN instances :
          instances[i].waiting_signal # "" =>
              /\ Len(nodes[i]) = 1
              /\ nodes[i][1].node_id = "start_node"
              /\ instances[i].current_node_instance_id = nodes[i][1].id
              /\ instances[i].waiting_signal =
                    GetNodeByID(instances[i].workflow_id, "start_node").catch
    /\ \A a \in appended :
          a.by # "create" => RowByID(a.inst, a.id).waiting_signal = ""
====
